---------------------------- MODULE Spec2Model ----------------------------
(***************************************************************************)
(* Network node health registry of the API server.                         *)
(*                                                                         *)
(* The repository proxy (internal/repository/enode.go) forwards the        *)
(* confirm / fail / batch operations to the database bridge p.db.  The     *)
(* bridge (internal/repository/db) is modelled from the specification of   *)
(* the node store: Lookup, Upsert, the confirm and fail transitions and    *)
(* the two ordered queries.                                                *)
(***************************************************************************)
EXTENDS Integers, Sequences, FiniteSets, TLC

(***************************************************************************)
(* Bounds of the model.                                                    *)
(***************************************************************************)
NumIds == 2
MaxCalls == 5
MaxTime == 2
NumWorkers == 2
MaxConcCalls == 3
NumResolvers == 2
MaxUnix == 6
MaxAmount == 1
MaxSignals == 2

(***************************************************************************)
(* Policy configuration of the node store.                                 *)
(***************************************************************************)
ScoreReward == 1
ScoreCeiling == 3
BatchLimit == 2
BootstrapLimit == 1
DeadThreshold == 2
PoolSize == 2

Ids == 1..NumIds
ConcIds == 1..MaxConcCalls
Endpoints == {"ep1", "ep2"}
Workers == 1..NumWorkers
Resolvers == 1..NumResolvers

\* an enode.Node: the identity and the endpoint it was observed at
Nodes == [id : Ids, ep : Endpoints]

\* Timestamps are only stored and compared, so between two readings of the
\* clock it either stands still or advances by one tick.
Ticks(now) == {t \in {now, now + 1} : t <= MaxTime}

\* error values seen by the proxy
Nil == "nil"
ErrUnknownNetworkNode == "ErrUnknownNetworkNode"
ErrStore == "ErrStoreUnavailable"

NoRec == [none |-> TRUE]
\* the answers of repository.R().DelegationLock: no lock (nil), a lock, an error
NoLock == [exists |-> FALSE, until |-> 0, err |-> Nil]
NotAsked == [set |-> FALSE, val |-> FALSE, err |-> Nil]
NoFlight == [busy |-> FALSE]

VARIABLES
    store,   \* the persistent collection of node records (a set of records)
    dbUp,    \* the persistence layer is reachable (it stays so in Spec and SpecConc)
    clock,   \* wall clock (UTC), never runs backwards
    ret,     \* the latest completed call of the sequential caller and its result
    ncalls,     \* number of checks reported so far
    confirms,   \* per id: number of successful checks reported so far
    failsSince, \* per id: failed checks reported since the latest successful one
    lastOk,     \* per id: score right after the most recent confirmed check
    pc,      \* per worker: position inside NetworkNodeConfirmCheck
    wnode,   \* per worker: the node being confirmed
    wnow,    \* per worker: value of `now` read at enode.go:46
    done,    \* completed calls of the concurrent workers, in completion order
    \* the health scheduler
    schedPc,  \* position of the control loop: "sleep", "pull" or "probe"
    due,      \* the interval has elapsed since the latest cycle began
    running,  \* the cycles in flight
    cycles,   \* number of cycles begun so far
    todo,     \* ids of the current batch not dispatched yet
    probes,   \* probes in flight: [cycle, id]
    \* resolvers.Delegation: the delegation lock
    dlgLock,   \* what the repository answers for the delegation's lock
    unixNow,   \* time.Now().UTC().Unix()
    isLocked,  \* the latest answer of IsDelegationLocked
    \* resolvers.Delegation: the pending withdrawals total
    rpc,        \* per resolver call: position inside Amount / AmountInWithdraw
    rkind,      \* per resolver call: "Amount" or "AmountInWithdraw"
    rbase,      \* per resolver call: the staked amount read by Amount
    rval,       \* per resolver call: the value pendingWithdrawalsValue returned
    rout,       \* per resolver call: the value returned to the caller
    rerr,       \* per resolver call: the error returned to the caller
    flight,     \* singleflight: the call in flight for key "withdraw-total"
    repoCalls,  \* number of WithdrawRequestsPendingTotal calls made
    staked,     \* repository: the staked amount
    pending,    \* repository: the pending withdrawals total
    \* cmd/apiserver: the application
    isVersionReq, \* the -v flag
    mainPc,       \* position of apiServer.run
    sigPc,        \* position of the signal goroutine of observeSignals
    ts,           \* signals buffered in the channel ts (capacity 1)
    nsig,         \* signals delivered to the process so far
    srv,          \* the HTTP server: "new", "serving", "failed", "shutdown"
    closed,       \* app.closed has been closed
    events        \* shutdown steps taken so far, in order

regVars == <<store, dbUp, clock, ret, ncalls, confirms, failsSince, lastOk, pc, wnode, wnow, done>>
schedVars == <<schedPc, due, running, cycles, todo, probes>>
dlgVars == <<dlgLock, unixNow, isLocked>>
sfVars == <<rpc, rkind, rbase, rval, rout, rerr, flight, repoCalls, staked, pending>>
appVars == <<isVersionReq, mainPc, sigPc, ts, nsig, srv, closed, events>>

vars == <<regVars, schedVars, dlgVars, sfVars, appVars>>

-----------------------------------------------------------------------------
(***************************************************************************)
(* Helpers.                                                                *)
(***************************************************************************)
Min(a, b) == IF a < b THEN a ELSE b

\* all orderings of a finite set, as sequences without repetition
Perms(S) ==
    {s \in [1..Cardinality(S) -> S] : \A i, j \in 1..Cardinality(S) : i # j => s[i] # s[j]}

-----------------------------------------------------------------------------
(***************************************************************************)
(* The node store (database bridge).                                       *)
(***************************************************************************)
RecsOf(st, id) == {r \in st : r.node.id = id}

\* Lookup(id) -> NodeRecord | NotFound
Lookup(st, id) ==
    IF RecsOf(st, id) = {} THEN NoRec ELSE CHOOSE r \in RecsOf(st, id) : TRUE

\* Exists(id) -> bool
IsNetworkNodeKnown(st, id) == RecsOf(st, id) # {}

\* Upsert(record): full replace of the record keyed by id
Upsert(st, rec) == (st \ RecsOf(st, rec.node.id)) \cup {rec}

\* p.db.StoreNetworkNode
DbStoreNetworkNode(st, up, rec) ==
    IF ~up THEN [store |-> st, err |-> ErrStore]
    ELSE [store |-> Upsert(st, rec), err |-> Nil]

\* success transition of a known record
ConfirmedRec(r, now) ==
    [r EXCEPT !.last = now, !.checked = now, !.fails = 0,
              !.score = Min(r.score + ScoreReward, ScoreCeiling)]

\* failure transition of a known record: the penalty is the failure count
FailedRec(r, now) ==
    [r EXCEPT !.checked = now, !.fails = r.fails + 1,
              !.score = r.score - (r.fails + 1)]

\* p.db.NetworkNodeConfirmCheck(id)
DbNetworkNodeConfirmCheck(st, up, id, now) ==
    IF ~up THEN [store |-> st, err |-> ErrStore]
    ELSE IF ~IsNetworkNodeKnown(st, id) THEN [store |-> st, err |-> ErrUnknownNetworkNode]
    ELSE [store |-> Upsert(st, ConfirmedRec(Lookup(st, id), now)), err |-> Nil]

\* p.db.NetworkNodeFailCheck(id)
DbNetworkNodeFailCheck(st, up, id, now) ==
    IF ~up THEN [store |-> st, err |-> ErrStore]
    ELSE IF ~IsNetworkNodeKnown(st, id) THEN [store |-> st, err |-> Nil]
    ELSE [store |-> Upsert(st, FailedRec(Lookup(st, id), now)), err |-> Nil]

\* s lists records in non-decreasing lastCheck order
AscByChecked(s) == \A i, j \in 1..Len(s) : i < j => s[i].checked <= s[j].checked

\* p.db.NetworkNodeUpdateBatch(): the possible answers of the query (records
\* with equal lastCheck come in any order)
DbNetworkNodeUpdateBatch(st) ==
    LET n == Min(BatchLimit, Cardinality(st)) IN
    UNION {Perms(T) : T \in {U \in SUBSET st :
                /\ Cardinality(U) = n
                /\ \A r \in U, q \in st \ U : r.checked <= q.checked}}
      \cap {s \in UNION {Perms(T) : T \in SUBSET st} : AscByChecked(s)}

\* the ids of the records of a batch
IdsOfBatch(b) == {b[i].node.id : i \in 1..Len(b)}

\* s lists records by descending score, ties by most recent lastResponse first
DescByScore(s) ==
    \A i, j \in 1..Len(s) : i < j =>
        \/ s[i].score > s[j].score
        \/ s[i].score = s[j].score /\ s[i].last >= s[j].last

Better(r, q) == r.score > q.score \/ (r.score = q.score /\ r.last >= q.last)

\* p.db.NetworkNodeBootstrapSet(): the possible answers of the query
DbNetworkNodeBootstrapSet(st) ==
    LET good == {r \in st : r.fails = 0 /\ r.fails <= DeadThreshold}
        n == Min(BootstrapLimit, Cardinality(good)) IN
    UNION {Perms(T) : T \in {U \in SUBSET good :
                /\ Cardinality(U) = n
                /\ \A r \in U, q \in good \ U : Better(r, q)}}
      \cap {s \in UNION {Perms(T) : T \in SUBSET good} : DescByScore(s)}

-----------------------------------------------------------------------------
(***************************************************************************)
(* The repository proxy: internal/repository/enode.go                      *)
(***************************************************************************)
\* faults of the record made for a newly discovered node
NewNode_NoFirstResponse(node, now) ==
    [node |-> node, score |-> 1, fails |-> 0,
     first |-> 0, last |-> now, checked |-> now]

NewNode_ZeroScore(node, now) ==
    [node |-> node, score |-> 0, fails |-> 0,
     first |-> now, last |-> now, checked |-> now]

NewNode_NoLastCheck(node, now) ==
    [node |-> node, score |-> 1, fails |-> 0,
     first |-> now, last |-> now, checked |-> 0]

NewNode_OneFailure(node, now) ==
    [node |-> node, score |-> 1, fails |-> 1,
     first |-> now, last |-> now, checked |-> now]

\* the record made for a newly discovered node
NewNode(node, now) ==
    [node |-> node, score |-> 1, fails |-> 0,
     first |-> now, last |-> now, checked |-> now]

\* fault: the early return on err == nil is missing, the node is always made anew
NetworkNodeConfirmCheck_AlwaysNew(st, up, node, now) ==
    LET r == DbNetworkNodeConfirmCheck(st, up, node.id, now)
        s == DbStoreNetworkNode(r.store, up, NewNode(node, now)) IN
    [store |-> s.store, new |-> TRUE, err |-> s.err]

\* proxy.NetworkNodeConfirmCheck; the result is (isNew, err) and the new store
NetworkNodeConfirmCheck(st, up, node, now) ==
    LET r == DbNetworkNodeConfirmCheck(st, up, node.id, now) IN
    IF r.err = Nil THEN [store |-> r.store, new |-> FALSE, err |-> Nil]
    ELSE IF r.err # ErrUnknownNetworkNode
         THEN [store |-> r.store, new |-> FALSE, err |-> r.err]
         ELSE LET s == DbStoreNetworkNode(r.store, up, NewNode(node, now)) IN
              [store |-> s.store, new |-> TRUE, err |-> s.err]

\* fault: the failed check is forwarded to the bridge's confirm call
NetworkNodeFailCheck_AsConfirm(st, up, node, now) ==
    LET r == DbNetworkNodeConfirmCheck(st, up, node.id, now) IN
    [store |-> r.store, err |-> IF r.err = ErrUnknownNetworkNode THEN Nil ELSE r.err]

\* fault: the unknown node is reported to the caller as an error
NetworkNodeFailCheck_Strict(st, up, node, now) ==
    IF up /\ ~IsNetworkNodeKnown(st, node.id)
    THEN [store |-> st, err |-> ErrUnknownNetworkNode]
    ELSE DbNetworkNodeFailCheck(st, up, node.id, now)

\* fault: a failed check of an unknown node registers the node
NetworkNodeFailCheck_Registers(st, up, node, now) ==
    IF up /\ ~IsNetworkNodeKnown(st, node.id)
    THEN DbStoreNetworkNode(st, up, FailedRec(NewNode(node, now), now))
    ELSE DbNetworkNodeFailCheck(st, up, node.id, now)

\* proxy.NetworkNodeFailCheck
NetworkNodeFailCheck(st, up, node, now) ==
    DbNetworkNodeFailCheck(st, up, node.id, now)

\* fault: the batch is answered by the bootstrap query
NetworkNodeUpdateBatch_Bootstrap(st) == DbNetworkNodeBootstrapSet(st)

\* proxy.NetworkNodeUpdateBatch
NetworkNodeUpdateBatch(st) == DbNetworkNodeUpdateBatch(st)

\* fault: the bootstrap set is answered by the update batch query
NetworkNodeBootstrapSet_Batch(st) == DbNetworkNodeUpdateBatch(st)

\* proxy.NetworkNodeBootstrapSet
NetworkNodeBootstrapSet(st) == DbNetworkNodeBootstrapSet(st)

-----------------------------------------------------------------------------
(***************************************************************************)
(* Initial state: an empty collection, nobody inside a call.               *)
(***************************************************************************)
NoRet == [op |-> "none", id |-> 0, ep |-> "ep1", t |-> 0, prev |-> NoRec,
          new |-> FALSE, err |-> Nil, batch |-> <<>>]

\* the parts of the server that a specification leaves alone stay as they start
SchedIdle ==
    /\ schedPc = "sleep"
    /\ due = FALSE
    /\ running = {}
    /\ cycles = 0
    /\ todo = {}
    /\ probes = {}

DlgIdle ==
    /\ dlgLock = NoLock
    /\ unixNow = 0
    /\ isLocked = NotAsked

SfIdle ==
    /\ rpc = [r \in Resolvers |-> "idle"]
    /\ rkind = [r \in Resolvers |-> "Amount"]
    /\ rbase = [r \in Resolvers |-> 0]
    /\ rval = [r \in Resolvers |-> 0]
    /\ rout = [r \in Resolvers |-> 0]
    /\ rerr = [r \in Resolvers |-> Nil]
    /\ flight = NoFlight
    /\ repoCalls = 0
    /\ staked = 1
    /\ pending = 0

AppIdle ==
    /\ isVersionReq = FALSE
    /\ mainPc = "init"
    /\ sigPc = "none"
    /\ ts = 0
    /\ nsig = 0
    /\ srv = "new"
    /\ closed = FALSE
    /\ events = <<>>

RegInit ==
    /\ dbUp = TRUE
    /\ clock = 0
    /\ ret = NoRet
    /\ ncalls = 0
    /\ confirms = [i \in Ids |-> 0]
    /\ failsSince = [i \in Ids |-> 0]
    /\ lastOk = [i \in Ids |-> 0]
    /\ pc = [w \in Workers |-> "idle"]
    /\ wnode = [w \in Workers |-> [id |-> 1, ep |-> "ep1"]]
    /\ wnow = [w \in Workers |-> 0]
    /\ done = <<>>

Init == store = {} /\ RegInit /\ SchedIdle /\ DlgIdle /\ SfIdle /\ AppIdle

concVars == <<pc, wnode, wnow, done>>
seqCounters == <<ncalls, confirms, failsSince, lastOk>>

(***************************************************************************)
(* One caller, each call running to completion.                            *)
(***************************************************************************)
ScoreOf(st, id) == IF IsNetworkNodeKnown(st, id) THEN Lookup(st, id).score ELSE 0

\* Endpoints are uninterpreted values: a node that is not stored yet is first
\* seen at "ep1", later sightings are at either endpoint.
FirstSeenAt(st, node) == IsNetworkNodeKnown(st, node.id) \/ node.ep = "ep1"

ConfirmCheck(node, t) ==
    /\ ncalls < MaxCalls
    /\ FirstSeenAt(store, node)
    /\ LET r == NetworkNodeConfirmCheck(store, dbUp, node, t) IN
        /\ store' = r.store
        /\ ret' = [op |-> "confirm", id |-> node.id, ep |-> node.ep, t |-> t,
                   prev |-> Lookup(store, node.id),
                   new |-> r.new, err |-> r.err, batch |-> <<>>]
        /\ confirms' = [confirms EXCEPT ![node.id] = @ + 1]
        /\ failsSince' = [failsSince EXCEPT ![node.id] = 0]
        /\ lastOk' = [lastOk EXCEPT ![node.id] = ScoreOf(r.store, node.id)]
    /\ clock' = t
    /\ ncalls' = ncalls + 1
    /\ UNCHANGED <<dbUp, concVars, schedVars, dlgVars, sfVars, appVars>>

FailCheck(node, t) ==
    /\ ncalls < MaxCalls
    /\ node.ep = "ep1"
    /\ LET r == NetworkNodeFailCheck(store, dbUp, node, t) IN
        /\ store' = r.store
        /\ ret' = [op |-> "fail", id |-> node.id, ep |-> "ep1", t |-> t,
                   prev |-> Lookup(store, node.id),
                   new |-> FALSE, err |-> r.err, batch |-> <<>>]
        /\ failsSince' = [failsSince EXCEPT ![node.id] = @ + 1]
    /\ clock' = t
    /\ ncalls' = ncalls + 1
    /\ UNCHANGED <<dbUp, confirms, lastOk, concVars, schedVars, dlgVars, sfVars, appVars>>

UpdateBatch ==
    /\ ret.op # "batch"
    /\ \E b \in NetworkNodeUpdateBatch(store) :
        ret' = [NoRet EXCEPT !.op = "batch", !.t = clock, !.batch = b]
    /\ UNCHANGED <<store, dbUp, clock, ncalls, confirms, failsSince, lastOk, concVars, schedVars, dlgVars, sfVars, appVars>>

Next ==
    \/ \E node \in Nodes, t \in Ticks(clock) : ConfirmCheck(node, t)
    \/ \E node \in Nodes, t \in Ticks(clock) : FailCheck(node, t)
    \/ UpdateBatch

Spec == Init /\ [][Next]_vars

\* the caller seeds a discovery walk instead of asking for a batch
BootstrapSet ==
    /\ ret.op # "boot"
    /\ \E b \in NetworkNodeBootstrapSet(store) :
        ret' = [NoRet EXCEPT !.op = "boot", !.t = clock, !.batch = b]
    /\ UNCHANGED <<store, dbUp, clock, ncalls, confirms, failsSince, lastOk, concVars, schedVars, dlgVars, sfVars, appVars>>

NextBoot ==
    \/ \E node \in Nodes, t \in Ticks(clock) : ConfirmCheck(node, t)
    \/ \E node \in Nodes, t \in Ticks(clock) : FailCheck(node, t)
    \/ BootstrapSet

SpecBoot == Init /\ [][NextBoot]_vars

-----------------------------------------------------------------------------
(***************************************************************************)
(* Several probe workers sharing the proxy.  Every call of the database    *)
(* bridge is one step; NetworkNodeConfirmCheck of an unknown node takes    *)
(* three: the bridge's answer, the reading of the clock, the store.        *)
(***************************************************************************)
Busy == {w \in Workers : pc[w] # "idle"}

CallBudget == Len(done) + Cardinality(Busy) < MaxConcCalls

\* Idle workers are interchangeable: the next call goes to the first of them.
Free(w) == pc[w] = "idle" /\ \A v \in Workers : v < w => pc[v] # "idle"

\* Node ids are uninterpreted values: the workers meet them in the order 1, 2, ...
UsedIds == {done[i].id : i \in 1..Len(done)} \cup {wnode[w].id : w \in Busy}
NextId == Cardinality(UsedIds) + 1

Call(op, id, t, new, err) == [op |-> op, id |-> id, t |-> t, new |-> new, err |-> err]

\* fault: every error of the bridge is taken for the unknown-node error
ConfirmBegin_AnyErrorCreates(w, id, t) ==
    /\ Free(w)
    /\ CallBudget
    /\ id <= NextId
    /\ clock' = t
    /\ LET r == DbNetworkNodeConfirmCheck(store, dbUp, id, t) IN
        /\ store' = r.store
        /\ IF r.err # Nil
           THEN /\ pc' = [pc EXCEPT ![w] = "now"]
                /\ wnode' = [wnode EXCEPT ![w] = [id |-> id, ep |-> "ep1"]]
                /\ done' = done
           ELSE /\ done' = Append(done, Call("confirm", id, t, FALSE, r.err))
                /\ UNCHANGED <<pc, wnode>>
    /\ ret' = NoRet
    /\ UNCHANGED <<dbUp, seqCounters, wnow, schedVars, dlgVars, sfVars, appVars>>

\* enode.go:35-43: the bridge is asked to confirm the check
ConfirmBegin(w, id, t) ==
    /\ Free(w)
    /\ CallBudget
    /\ id <= NextId
    /\ clock' = t
    /\ LET r == DbNetworkNodeConfirmCheck(store, dbUp, id, t) IN
        /\ store' = r.store
        /\ IF r.err = ErrUnknownNetworkNode
           THEN /\ pc' = [pc EXCEPT ![w] = "now"]
                /\ wnode' = [wnode EXCEPT ![w] = [id |-> id, ep |-> "ep1"]]
                /\ done' = done
           ELSE /\ done' = Append(done, Call("confirm", id, t, FALSE, r.err))
                /\ UNCHANGED <<pc, wnode>>
    /\ ret' = NoRet
    /\ UNCHANGED <<dbUp, seqCounters, wnow, schedVars, dlgVars, sfVars, appVars>>

\* enode.go:46: now := time.Now().UTC()
ConfirmNow(w, t) ==
    /\ pc[w] = "now"
    /\ clock' = t
    /\ wnow' = [wnow EXCEPT ![w] = t]
    /\ pc' = [pc EXCEPT ![w] = "store"]
    /\ ret' = NoRet
    /\ UNCHANGED <<store, dbUp, seqCounters, wnode, done, schedVars, dlgVars, sfVars, appVars>>

\* enode.go:47-54: the new record is stored
ConfirmStore(w) ==
    /\ pc[w] = "store"
    /\ LET s == DbStoreNetworkNode(store, dbUp, NewNode(wnode[w], wnow[w])) IN
        /\ store' = s.store
        /\ done' = Append(done, Call("confirm", wnode[w].id, wnow[w], TRUE, s.err))
    /\ pc' = [pc EXCEPT ![w] = "idle"]
    /\ ret' = NoRet
    /\ UNCHANGED <<dbUp, clock, seqCounters, wnode, wnow, schedVars, dlgVars, sfVars, appVars>>

\* enode.go:58-60: one call of the bridge
FailStep(w, id, t) ==
    /\ Free(w)
    /\ CallBudget
    /\ id <= NextId
    /\ clock' = t
    /\ LET r == NetworkNodeFailCheck(store, dbUp, [id |-> id, ep |-> "ep1"], t) IN
        /\ store' = r.store
        /\ done' = Append(done, Call("fail", id, t, FALSE, r.err))
    /\ ret' = NoRet
    /\ UNCHANGED <<dbUp, seqCounters, pc, wnode, wnow, schedVars, dlgVars, sfVars, appVars>>

\* enode.go:64-66: the scheduler asks for the next batch while workers write
BatchQuery ==
    /\ \E b \in NetworkNodeUpdateBatch(store) :
        /\ ret.op # "batch"
        /\ ret' = [NoRet EXCEPT !.op = "batch", !.t = clock, !.batch = b]
    /\ UNCHANGED <<store, dbUp, clock, seqCounters, concVars, schedVars, dlgVars, sfVars, appVars>>

NextConc ==
    \/ \E w \in Workers, id \in ConcIds, t \in Ticks(clock) : ConfirmBegin(w, id, t)
    \/ \E w \in Workers, t \in Ticks(clock) : ConfirmNow(w, t)
    \/ \E w \in Workers : ConfirmStore(w)
    \/ \E w \in Workers, id \in ConcIds, t \in Ticks(clock) : FailStep(w, id, t)
    \/ BatchQuery

SpecConc == Init /\ [][NextConc]_vars

-----------------------------------------------------------------------------
(***************************************************************************)
(* Properties of the sequential caller (Spec).  `ret` describes the latest *)
(* call: its arguments, the record the id had before it (ret.prev) and     *)
(* what it returned; the store has not changed since.                      *)
(***************************************************************************)
Rec(id) == Lookup(store, id)
Known(id) == IsNetworkNodeKnown(store, id)
Tri(k) == (k * (k + 1)) \div 2

\* C1: ConfirmCheck(id, t) of an id without a stored record reports "newly
\* discovered" and leaves a record with score 1, no failures and all three
\* timestamps equal to t.
C1_ConfirmUnseenCreates ==
    (ret.op = "confirm" /\ ret.prev = NoRec) =>
        /\ ret.new = TRUE
        /\ ret.err = Nil
        /\ Cardinality(RecsOf(store, ret.id)) = 1
        /\ Rec(ret.id).score = 1
        /\ Rec(ret.id).fails = 0
        /\ Rec(ret.id).first = ret.t
        /\ Rec(ret.id).last = ret.t
        /\ Rec(ret.id).checked = ret.t

C1_Witness ==
    /\ ret.op = "confirm" /\ ret.prev = NoRec /\ ret.new
    /\ ret.t = 2
    /\ Cardinality(store) = 2

\* C2: ConfirmCheck(id, t) of a stored id reports "already known", sets
\* lastResponse = lastCheck = t, resets the failure count, keeps firstResponse
\* and raises the score by the reward, stopping at the ceiling.
C2_ConfirmKnownUpdates ==
    (ret.op = "confirm" /\ ret.prev # NoRec) =>
        /\ ret.new = FALSE
        /\ ret.err = Nil
        /\ Rec(ret.id).last = ret.t
        /\ Rec(ret.id).checked = ret.t
        /\ Rec(ret.id).fails = 0
        /\ Rec(ret.id).first = ret.prev.first
        /\ Rec(ret.id).score =
              IF ret.prev.score >= ScoreCeiling THEN ScoreCeiling
              ELSE ret.prev.score + ScoreReward

C2_Witness ==
    /\ ret.op = "confirm" /\ ret.prev # NoRec
    /\ ret.prev.fails = 2
    /\ ret.prev.first < ret.t
    /\ Rec(ret.id).score = ret.prev.score + 1

C2_WitnessCeiling ==
    /\ ret.op = "confirm" /\ ret.prev # NoRec
    /\ ret.prev.score = ScoreCeiling
    /\ Rec(ret.id).score = ScoreCeiling

\* C3: FailCheck(id, t) of a stored id sets lastCheck = t, adds exactly one to
\* the failure count and leaves lastResponse and firstResponse as they were.
C3_FailKnownUpdates ==
    (ret.op = "fail" /\ ret.prev # NoRec) =>
        /\ Rec(ret.id).checked = ret.t
        /\ Rec(ret.id).fails = ret.prev.fails + 1
        /\ Rec(ret.id).last = ret.prev.last
        /\ Rec(ret.id).first = ret.prev.first

C3_Witness ==
    /\ ret.op = "fail" /\ ret.prev # NoRec
    /\ ret.prev.fails = 1
    /\ ret.prev.checked < ret.t
    /\ ret.prev.last < ret.t

\* C4: FailCheck of an id without a stored record changes nothing in the store
\* and returns no error.
C4_FailUnknownNoop ==
    [][(ncalls' = ncalls + 1 /\ ret'.op = "fail" /\ ~Known(ret'.id)) =>
          (store' = store /\ ret'.err = Nil)]_vars

C4_Witness ==
    /\ ret.op = "fail" /\ ret.prev = NoRec /\ ret.err = Nil
    /\ store # {}
    /\ ~Known(ret.id)

\* C5: the penalty of a failed check is the failure count after the increment,
\* so k failures in a row cost k(k+1)/2; created, failed three times: 3 failures
\* and score -5; confirmed again at t4: no failures, score -4, lastResponse t4.
C5_CompoundingPenalty ==
    /\ (ret.op = "fail" /\ ret.prev # NoRec) =>
          Rec(ret.id).score = ret.prev.score - Rec(ret.id).fails
    /\ \A id \in Ids : Known(id) =>
          /\ Rec(id).score = lastOk[id] - Tri(failsSince[id])
          /\ (confirms[id] = 1 /\ failsSince[id] = 3) =>
                (Rec(id).fails = 3 /\ Rec(id).score = -5)
    /\ (ret.op = "confirm" /\ ret.prev # NoRec /\ confirms[ret.id] = 2
            /\ ret.prev.fails = 3 /\ ret.prev.score = -5) =>
          /\ Rec(ret.id).fails = 0
          /\ Rec(ret.id).score = -4
          /\ Rec(ret.id).last = ret.t

C5_Witness ==
    /\ ret.op = "confirm" /\ confirms[ret.id] = 2
    /\ ret.prev # NoRec /\ ret.prev.fails = 3 /\ ret.prev.score = -5
    /\ Rec(ret.id).score = -4
    /\ ret.t = 2

\* C7: at most one record per id; a record exists only after a ConfirmCheck of
\* its id; a FailCheck never adds a record; confirming a stored id again, also
\* at another endpoint, leaves one record for it.
C7_OneRecordPerConfirmedId ==
    /\ \A id \in Ids :
          /\ Cardinality(RecsOf(store, id)) <= 1
          /\ Known(id) => confirms[id] >= 1
    /\ \A r \in store : r.node.id \in Ids
    /\ ret.op = "fail" => (Known(ret.id) <=> ret.prev # NoRec)
    /\ (ret.op = "confirm" /\ ret.prev # NoRec) =>
          Cardinality(RecsOf(store, ret.id)) = 1

C7_Witness ==
    /\ ret.op = "confirm" /\ ret.prev # NoRec
    /\ ret.ep # ret.prev.node.ep
    /\ Cardinality(store) = 2
    /\ \E id \in Ids : failsSince[id] > 0

\* C8: every stored record has lastCheck >= lastResponse >= firstResponse.
C8_TimestampOrder ==
    \A r \in store : r.checked >= r.last /\ r.last >= r.first

C8_Witness ==
    \E r \in store : r.checked > r.last /\ r.last > r.first

\* C9: a stored record's failure count is the number of FailChecks of its id
\* since the latest ConfirmCheck; it is 0 exactly when the latest check of the
\* id was a success.
C9_FailureCountSinceSuccess ==
    /\ \A id \in Ids : Known(id) => Rec(id).fails = failsSince[id]
    /\ (ret.op \in {"confirm", "fail"} /\ Known(ret.id)) =>
          (Rec(ret.id).fails = 0 <=> ret.op = "confirm")

C9_Witness ==
    /\ ret.op = "fail" /\ Known(ret.id)
    /\ Rec(ret.id).fails = 2
    /\ confirms[ret.id] = 2

-----------------------------------------------------------------------------
(***************************************************************************)
(* Properties of the concurrent workers (SpecConc).                        *)
(***************************************************************************)
ApplyCall(st, c) ==
    IF c.op = "confirm"
    THEN NetworkNodeConfirmCheck(st, TRUE, [id |-> c.id, ep |-> "ep1"], c.t).store
    ELSE NetworkNodeFailCheck(st, TRUE, [id |-> c.id, ep |-> "ep1"], c.t).store

RECURSIVE Replay(_, _, _)
Replay(st, order, k) ==
    IF k > Len(done) THEN st
    ELSE Replay(ApplyCall(st, done[order[k]]), order, k + 1)

\* C6: once every call has returned, the store is what the completed calls
\* give when applied one after the other in some order.
C6_Serializable ==
    (Busy = {}) => \E order \in Perms(1..Len(done)) : Replay({}, order, 1) = store

IdsOf(b) == {b[i].node.id : i \in 1..Len(b)}

GoodBatch(st, b) ==
    /\ Len(b) <= BatchLimit
    /\ \A i, j \in 1..Len(b) : i # j => b[i].node.id # b[j].node.id
    /\ \A i, j \in 1..Len(b) : i < j => b[i].checked <= b[j].checked
    /\ \A i \in 1..Len(b) : b[i] \in st
    /\ Cardinality(st) > BatchLimit =>
          /\ Len(b) = BatchLimit
          /\ \A i \in 1..Len(b) : \A q \in st :
                q.node.id \notin IdsOf(b) => b[i].checked <= q.checked

\* C10: the batch holds at most BatchLimit records, no id twice, in
\* non-decreasing lastCheck order, and from a larger store exactly the
\* BatchLimit records checked longest ago, whatever the workers wrote.
C10_UpdateBatchOldestFirst ==
    ret.op = "batch" => GoodBatch(store, ret.batch)

C10_Witness ==
    /\ ret.op = "batch"
    /\ Cardinality(store) = 3
    /\ \A r, q \in store : r # q => r.checked # q.checked
    /\ Len(ret.batch) = 2
    /\ \E i, j \in 1..Len(done) : i < j /\ done[i].t > done[j].t

-----------------------------------------------------------------------------
(***************************************************************************)
(* Properties of the bootstrap query (SpecBoot).                           *)
(***************************************************************************)
Eligible(st) == {r \in st : r.fails = 0}

GoodBootstrap(st, b) ==
    /\ Len(b) <= BootstrapLimit
    /\ \A i \in 1..Len(b) : b[i] \in st /\ b[i].fails <= DeadThreshold /\ b[i].fails = 0
    /\ \A i, j \in 1..Len(b) : i # j => b[i].node.id # b[j].node.id
    /\ \A i, j \in 1..Len(b) : i < j =>
          \/ b[i].score > b[j].score
          \/ b[i].score = b[j].score /\ b[i].last >= b[j].last
    /\ Eligible(st) # {} => Len(b) >= 1
    /\ \A i \in 1..Len(b) : \A q \in Eligible(st) :
          q.node.id \notin IdsOf(b) =>
              \/ b[i].score > q.score
              \/ b[i].score = q.score /\ b[i].last >= q.last

\* C11: the bootstrap set holds at most BootstrapLimit records, none with
\* failures (so none beyond the dead-threshold), the best scores first and ties
\* by the latest lastResponse; of two confirmed peers BootstrapSet(1) is the one
\* with the higher score.
C11_BootstrapBestFirst ==
    ret.op = "boot" =>
        /\ GoodBootstrap(store, ret.batch)
        /\ \A a, b \in store :
              (a.fails = 0 /\ b.fails = 0 /\ a.score > b.score /\ store = {a, b}
                  /\ BootstrapLimit = 1) => ret.batch = <<a>>

C11_Witness ==
    /\ ret.op = "boot"
    /\ \E a, b \in store :
          /\ store = {a, b}
          /\ a.fails = 0 /\ b.fails = 0
          /\ a.score = 3 /\ b.score = 2
          /\ a.last < b.last
          /\ ret.batch = <<a>>

C11_WitnessDead ==
    /\ ret.op = "boot"
    /\ \E a, b \in store :
          /\ a.fails > DeadThreshold /\ b.fails = 0
          /\ ret.batch = <<b>>

-----------------------------------------------------------------------------
(***************************************************************************)
(* The health scheduler: one periodic control loop.  Each cycle pulls the  *)
(* update batch, probes its records with at most PoolSize probes at a time *)
(* and routes every outcome to the confirm or the fail transition, then    *)
(* sleeps until the interval has elapsed.                                  *)
(***************************************************************************)
regRest == <<dbUp, ret, ncalls, confirms, failsSince, lastOk, pc, wnode, wnow, done>>

\* the collection persists: the scheduler starts over the nodes found earlier
InitSched ==
    /\ store = {NewNode([id |-> i, ep |-> "ep1"], 0) : i \in Ids}
    /\ RegInit /\ DlgIdle /\ SfIdle /\ AppIdle
    /\ schedPc = "sleep"
    /\ due = TRUE
    /\ running = {}
    /\ cycles = 0
    /\ todo = {}
    /\ probes = {}

\* fault: every tick of the timer begins a cycle of its own
TimerFire_Stacking ==
    /\ clock < MaxTime
    /\ clock' = clock + 1
    /\ due' = FALSE
    /\ cycles' = cycles + 1
    /\ running' = running \cup {cycles + 1}
    /\ \E b \in NetworkNodeUpdateBatch(store) : todo' = todo \cup IdsOfBatch(b)
    /\ schedPc' = "probe"
    /\ UNCHANGED <<store, regRest, probes, dlgVars, sfVars, appVars>>

\* the fixed wall-clock interval elapses
TimerFire ==
    /\ clock < MaxTime
    /\ clock' = clock + 1
    /\ due' = TRUE
    /\ UNCHANGED <<store, regRest, schedPc, running, cycles, todo, probes,
                   dlgVars, sfVars, appVars>>

\* step 1: a cycle begins by pulling UpdateBatch(N); after a cycle that overran
\* the interval ("pull") the loop does not sleep
CycleStart ==
    /\ schedPc = "pull" \/ (schedPc = "sleep" /\ due)
    /\ \E b \in NetworkNodeUpdateBatch(store) : todo' = IdsOfBatch(b)
    /\ cycles' = cycles + 1
    /\ running' = running \cup {cycles + 1}
    /\ due' = FALSE
    /\ schedPc' = "probe"
    /\ UNCHANGED <<store, clock, regRest, probes, dlgVars, sfVars, appVars>>

\* step 2: a record of the batch is handed to a free worker of the pool
Dispatch(id) ==
    /\ schedPc = "probe"
    /\ id \in todo
    /\ Cardinality(probes) < PoolSize
    /\ todo' = todo \ {id}
    /\ probes' = probes \cup {[cycle |-> cycles, id |-> id]}
    /\ UNCHANGED <<store, clock, regRest, schedPc, due, running, cycles,
                   dlgVars, sfVars, appVars>>

\* step 3: the outcome of a probe is routed to ConfirmCheck or FailCheck
ProbeDone(p, ok) ==
    /\ p \in probes
    /\ probes' = probes \ {p}
    /\ store' = IF ok
                THEN NetworkNodeConfirmCheck(store, dbUp, [id |-> p.id, ep |-> "ep1"], clock).store
                ELSE NetworkNodeFailCheck(store, dbUp, [id |-> p.id, ep |-> "ep1"], clock).store
    /\ UNCHANGED <<clock, regRest, schedPc, due, running, cycles, todo,
                   dlgVars, sfVars, appVars>>

\* step 4: the cycle is over; sleep, or go on at once when the interval is over
CycleEnd ==
    /\ schedPc = "probe"
    /\ todo = {}
    /\ probes = {}
    /\ running' = running \ {cycles}
    /\ schedPc' = IF due THEN "pull" ELSE "sleep"
    /\ UNCHANGED <<store, clock, regRest, due, cycles, todo, probes,
                   dlgVars, sfVars, appVars>>

NextSched ==
    \/ TimerFire
    \/ CycleStart
    \/ \E id \in Ids : Dispatch(id)
    \/ \E p \in probes, ok \in BOOLEAN : ProbeDone(p, ok)
    \/ CycleEnd

SpecSched == InitSched /\ [][NextSched]_vars

\* C12: at most one cycle is in flight; no record has probes of two cycles in
\* flight; a cycle that ends after the interval has elapsed is followed by the
\* next one without a sleep.
C12_OneCycleInFlight ==
    [][/\ Cardinality(running') <= 1
       /\ \A q \in probes' : q.cycle \in running'
       /\ \A q, r \in probes' : q.id = r.id => q.cycle = r.cycle
       /\ (schedPc = "probe" /\ schedPc' # "probe" /\ due) =>
             (schedPc' = "pull" /\ running' = {})
       /\ (schedPc' = "sleep") => running' = {}]_vars

C12_Witness ==
    /\ schedPc = "probe"
    /\ cycles = 2
    /\ due
    /\ Cardinality(probes) = 2
    /\ \E r \in store : r.fails = 1

-----------------------------------------------------------------------------
(***************************************************************************)
(* One caller of NetworkNodeConfirmCheck over a store that comes and goes: *)
(* the store may fail before the call, or between the confirmation and the *)
(* storing of the new record.                                              *)
(***************************************************************************)
\* the store becomes unreachable: every bridge call fails with a store error
StoreDown ==
    /\ dbUp
    /\ dbUp' = FALSE
    /\ UNCHANGED <<store, clock, ret, seqCounters, concVars,
                   schedVars, dlgVars, sfVars, appVars>>

\* the store is reachable again
StoreUp ==
    /\ ~dbUp
    /\ dbUp' = TRUE
    /\ UNCHANGED <<store, clock, ret, seqCounters, concVars,
                   schedVars, dlgVars, sfVars, appVars>>

NextFault ==
    \/ \E id \in ConcIds, t \in Ticks(clock) : ConfirmBegin(1, id, t)
    \/ \E t \in Ticks(clock) : ConfirmNow(1, t)
    \/ ConfirmStore(1)
    \/ StoreDown
    \/ StoreUp

SpecFault == Init /\ [][NextFault]_vars

LastDone == done[Len(done)]

\* C13: a confirm call whose bridge call fails with an error other than the
\* unknown-node error returns that error with new = FALSE and creates no
\* record; the creation path is entered only on the unknown-node error; an
\* error of storing the new record is returned with new = TRUE.
C13_ConfirmErrorHandling ==
    [][/\ (pc[1] = "idle" /\ pc'[1] = "now") =>
             /\ dbUp
             /\ ~IsNetworkNodeKnown(store, wnode'[1].id)
             /\ done' = done
       /\ (pc[1] = "idle" /\ Len(done') > Len(done)) =>
             /\ LastDone'.new = FALSE
             /\ LastDone'.err = IF dbUp THEN Nil ELSE ErrStore
             /\ ~dbUp => store' = store
             /\ dbUp => IsNetworkNodeKnown(store, LastDone'.id)
       /\ (pc[1] = "store" /\ pc'[1] = "idle") =>
             /\ Len(done') = Len(done) + 1
             /\ LastDone'.new = TRUE
             /\ LastDone'.err = IF dbUp THEN Nil ELSE ErrStore
             /\ ~dbUp => store' = store
             /\ dbUp => store' = Upsert(store, NewNode(wnode[1], wnow[1]))
       /\ (\E r \in store' : ~IsNetworkNodeKnown(store, r.node.id)) =>
             pc[1] = "store"]_vars

C13_Witness ==
    /\ \E i \in 1..Len(done) : done[i].new = FALSE /\ done[i].err = ErrStore
    /\ \E i \in 1..Len(done) : done[i].new = TRUE /\ done[i].err = ErrStore
    /\ store = {}

-----------------------------------------------------------------------------
(***************************************************************************)
(* resolvers.Delegation.IsDelegationLocked over every lock the repository  *)
(* may answer and every current time.                                      *)
(***************************************************************************)
LockAnswers ==
    {NoLock}
      \cup {[exists |-> TRUE, until |-> u, err |-> Nil] : u \in 0..MaxUnix}
      \cup {[exists |-> FALSE, until |-> 0, err |-> ErrStore]}

\* Delegation.IsDelegationLocked: (bool, error)
IsDelegationLocked(lock, now) ==
    IF lock.err # Nil THEN [set |-> TRUE, val |-> FALSE, err |-> lock.err]
    ELSE [set |-> TRUE, val |-> lock.exists /\ lock.until < now, err |-> Nil]

InitLock ==
    /\ store = {} /\ RegInit /\ SchedIdle /\ SfIdle /\ AppIdle
    /\ dlgLock \in LockAnswers
    /\ unixNow \in 0..MaxUnix
    /\ isLocked = NotAsked

\* a request resolves the isDelegationLocked field
AskLocked ==
    /\ ~isLocked.set
    /\ isLocked' = IsDelegationLocked(dlgLock, unixNow)
    /\ UNCHANGED <<regVars, schedVars, dlgLock, unixNow, sfVars, appVars>>

NextLock == AskLocked

SpecLock == InitLock /\ [][NextLock]_vars

\* C14: IsDelegationLocked answers true exactly when a lock exists and its
\* LockedUntil is later than the current time, and false when there is no lock
\* or the lock has expired.
C14_LockedWhileLockLasts ==
    (isLocked.set /\ isLocked.err = Nil) =>
        (isLocked.val <=> (dlgLock.exists /\ dlgLock.until > unixNow))

-----------------------------------------------------------------------------
(***************************************************************************)
(* resolvers.Delegation: Amount and AmountInWithdraw of one Delegation     *)
(* value, resolved by goroutines that share its singleflight group.        *)
(***************************************************************************)
Amounts == 0..MaxAmount

InitSf ==
    /\ store = {} /\ RegInit /\ SchedIdle /\ DlgIdle /\ AppIdle
    /\ rpc = [r \in Resolvers |-> "idle"]
    /\ rkind = [r \in Resolvers |-> "Amount"]
    /\ rbase = [r \in Resolvers |-> 0]
    /\ rval = [r \in Resolvers |-> 0]
    /\ rout = [r \in Resolvers |-> 0]
    /\ rerr = [r \in Resolvers |-> Nil]
    /\ flight = NoFlight
    /\ repoCalls = 0
    /\ staked \in Amounts
    /\ pending \in Amounts

\* part_002:43-48: Amount reads the staked amount; an error ends the call
AmountStaked(r, ok) ==
    /\ rpc[r] = "idle"
    /\ rkind' = [rkind EXCEPT ![r] = "Amount"]
    /\ IF ok
       THEN /\ rbase' = [rbase EXCEPT ![r] = staked]
            /\ rpc' = [rpc EXCEPT ![r] = "do"]
            /\ rerr' = rerr
       ELSE /\ rerr' = [rerr EXCEPT ![r] = ErrStore]
            /\ rpc' = [rpc EXCEPT ![r] = "done"]
            /\ rbase' = rbase
    /\ UNCHANGED <<regVars, schedVars, dlgVars, rval, rout, flight, repoCalls,
                   staked, pending, appVars>>

\* part_002:73-74: AmountInWithdraw goes straight to pendingWithdrawalsValue
AmountInWithdraw(r) ==
    /\ rpc[r] = "idle"
    /\ rkind' = [rkind EXCEPT ![r] = "AmountInWithdraw"]
    /\ rpc' = [rpc EXCEPT ![r] = "do"]
    /\ UNCHANGED <<regVars, schedVars, dlgVars, rbase, rval, rout, rerr, flight,
                   repoCalls, staked, pending, appVars>>

\* part_002:63: del.cg.Do("withdraw-total", ...): the caller joins the call in
\* flight for the key, or registers one and runs the function itself
DoEnter(r) ==
    /\ rpc[r] = "do"
    /\ IF flight.busy
       THEN /\ rpc' = [rpc EXCEPT ![r] = "wait"]
            /\ flight' = flight
       ELSE /\ rpc' = [rpc EXCEPT ![r] = "fn"]
            /\ flight' = [busy |-> TRUE]
    /\ UNCHANGED <<regVars, schedVars, dlgVars, rkind, rbase, rval, rout, rerr,
                   repoCalls, staked, pending, appVars>>

Waiters == {q \in Resolvers : rpc[q] = "wait"}

\* part_002:64: the function runs WithdrawRequestsPendingTotal; the group then
\* forgets the key and hands the result to the callers that waited
DoCall(r, ok) ==
    /\ rpc[r] = "fn"
    /\ repoCalls' = repoCalls + 1
    /\ flight' = NoFlight
    /\ rpc' = [q \in Resolvers |-> IF q \in Waiters \cup {r} THEN "ret" ELSE rpc[q]]
    /\ rval' = [q \in Resolvers |-> IF q \in Waiters \cup {r} /\ ok THEN pending ELSE rval[q]]
    /\ rerr' = [q \in Resolvers |->
                  IF q \in Waiters \cup {r} /\ ~ok THEN ErrStore ELSE rerr[q]]
    /\ UNCHANGED <<regVars, schedVars, dlgVars, rkind, rbase, rout, staked,
                   pending, appVars>>

\* part_002:52-56, 66-69, 75-78: the value or the error is returned
Return(r) ==
    /\ rpc[r] = "ret"
    /\ rpc' = [rpc EXCEPT ![r] = "done"]
    /\ rout' = [rout EXCEPT ![r] =
                  IF rerr[r] # Nil THEN 0
                  ELSE IF rkind[r] = "Amount" THEN rbase[r] + rval[r] ELSE rval[r]]
    /\ UNCHANGED <<regVars, schedVars, dlgVars, rkind, rbase, rval, rerr, flight,
                   repoCalls, staked, pending, appVars>>

NextSf ==
    \/ \E r \in Resolvers, ok \in BOOLEAN : AmountStaked(r, ok)
    \/ \E r \in Resolvers : AmountInWithdraw(r)
    \/ \E r \in Resolvers : DoEnter(r)
    \/ \E r \in Resolvers, ok \in BOOLEAN : DoCall(r, ok)
    \/ \E r \in Resolvers : Return(r)

SpecSf == InitSf /\ [][NextSf]_vars

\* C15: for one Delegation value WithdrawRequestsPendingTotal is called at most
\* once, whatever the sequence or interleaving of Amount and AmountInWithdraw,
\* and Amount returns the staked amount plus the pending withdrawals total.
C15_PendingTotalRequestedOnce ==
    /\ repoCalls <= 1
    /\ \A r \in Resolvers :
          (rpc[r] = "done" /\ rerr[r] = Nil /\ rkind[r] = "Amount") =>
              rout[r] = staked + pending

\* the part of the claim the code keeps: the callers that overlap share one call
SfOverlapShares ==
    \A r \in Resolvers :
        (rpc[r] = "done" /\ rerr[r] = Nil) =>
            rout[r] = IF rkind[r] = "Amount" THEN staked + pending ELSE pending

-----------------------------------------------------------------------------
(***************************************************************************)
(* cmd/apiserver: run, the goroutine started by observeSignals, and the    *)
(* terminate signals delivered to the process.                             *)
(***************************************************************************)
\* part_001:58-71: the flags are parsed and app.closed is made
InitApp ==
    /\ store = {} /\ RegInit /\ SchedIdle /\ DlgIdle /\ SfIdle
    /\ isVersionReq \in BOOLEAN
    /\ mainPc = "init"
    /\ sigPc = "none"
    /\ ts = 0
    /\ nsig = 0
    /\ srv = "new"
    /\ closed = FALSE
    /\ events = <<>>

appRest == <<regVars, schedVars, dlgVars, sfVars, isVersionReq>>

\* part_001:91-94: only the version was asked for
RunVersion ==
    /\ mainPc = "init"
    /\ isVersionReq
    /\ mainPc' = "returned"
    /\ UNCHANGED <<appRest, sigPc, ts, nsig, srv, closed, events>>

\* part_001:97, 183-211: the signals are captured and the goroutine is started
RunObserveSignals ==
    /\ mainPc = "init"
    /\ ~isVersionReq
    /\ sigPc' = "wait"
    /\ mainPc' = "services"
    /\ UNCHANGED <<appRest, ts, nsig, srv, closed, events>>

\* part_001:100: svc.Manager().Run()
RunServices ==
    /\ mainPc = "services"
    /\ mainPc' = "listen"
    /\ UNCHANGED <<appRest, sigPc, ts, nsig, srv, closed, events>>

\* part_001:107: ListenAndServe starts serving, or returns at once with an
\* error (the address cannot be bound, or the server was shut down already)
ListenAndServe(ok) ==
    /\ mainPc = "listen"
    /\ IF srv = "new" /\ ok
       THEN srv' = "serving" /\ mainPc' = "serving"
       ELSE /\ srv' = IF srv = "new" THEN "failed" ELSE srv
            /\ mainPc' = "wait"
    /\ UNCHANGED <<appRest, sigPc, ts, nsig, closed, events>>

\* part_001:107-110: ListenAndServe returns, after Shutdown or by a failure of
\* the listener
ServeReturns(shut) ==
    /\ mainPc = "serving"
    /\ IF shut THEN srv = "shutdown" /\ srv' = srv
               ELSE srv = "serving" /\ srv' = "failed"
    /\ mainPc' = "wait"
    /\ UNCHANGED <<appRest, sigPc, ts, nsig, closed, events>>

\* fault: run does not wait for app.closed
RunWait_NoWait ==
    /\ mainPc = "wait"
    /\ mainPc' = "returned"
    /\ UNCHANGED <<appRest, sigPc, ts, nsig, srv, closed, events>>

\* part_001:113: <-app.closed
RunWait ==
    /\ mainPc = "wait"
    /\ closed
    /\ mainPc' = "returned"
    /\ UNCHANGED <<appRest, sigPc, ts, nsig, srv, closed, events>>

\* SIGINT or SIGTERM reaches the process: signal.Notify puts it into ts
\* (capacity 1, part_001:187-188) and drops it when ts is full
Signal ==
    /\ sigPc # "none"
    /\ nsig < MaxSignals
    /\ nsig' = nsig + 1
    /\ ts' = IF ts < 1 THEN ts + 1 ELSE ts
    /\ UNCHANGED <<appRest, mainPc, sigPc, srv, closed, events>>

\* part_001:198: <-ts
SigReceive ==
    /\ sigPc = "wait"
    /\ ts > 0
    /\ ts' = ts - 1
    /\ sigPc' = "shutdown"
    /\ UNCHANGED <<appRest, mainPc, nsig, srv, closed, events>>

\* part_001:203-204: app.srv.Shutdown is called
SrvShutdown ==
    /\ sigPc = "shutdown"
    /\ srv' = IF srv = "failed" THEN srv ELSE "shutdown"
    /\ events' = Append(events, "Shutdown")
    /\ sigPc' = "shutting"
    /\ UNCHANGED <<appRest, mainPc, ts, nsig, closed>>

\* part_001:204-210: Shutdown returns, with or without an error
SrvShutdownReturns ==
    /\ sigPc = "shutting"
    /\ sigPc' = "apiClose"
    /\ UNCHANGED <<appRest, mainPc, ts, nsig, srv, closed, events>>

\* part_001:193, 218: the deferred terminate() begins with app.api.Close()
ApiClose ==
    /\ sigPc = "apiClose"
    /\ events' = Append(events, "ApiClose")
    /\ sigPc' = "mgrClose"
    /\ UNCHANGED <<appRest, mainPc, ts, nsig, srv, closed>>

\* part_001:222-224: svc.Manager().Close()
MgrClose ==
    /\ sigPc = "mgrClose"
    /\ events' = Append(events, "MgrClose")
    /\ sigPc' = "repoClose"
    /\ UNCHANGED <<appRest, mainPc, ts, nsig, srv, closed>>

\* part_001:228-230: repository.R().Close()
RepoClose ==
    /\ sigPc = "repoClose"
    /\ events' = Append(events, "RepoClose")
    /\ sigPc' = "close"
    /\ UNCHANGED <<appRest, mainPc, ts, nsig, srv, closed>>

\* part_001:194: close(app.closed)
CloseClosed ==
    /\ sigPc = "close"
    /\ closed' = TRUE
    /\ events' = Append(events, "Closed")
    /\ sigPc' = "exit"
    /\ UNCHANGED <<appRest, mainPc, ts, nsig, srv>>

NextApp ==
    \/ RunVersion
    \/ RunObserveSignals
    \/ RunServices
    \/ \E ok \in BOOLEAN : ListenAndServe(ok)
    \/ \E shut \in BOOLEAN : ServeReturns(shut)
    \/ RunWait
    \/ Signal
    \/ SigReceive
    \/ SrvShutdown
    \/ SrvShutdownReturns
    \/ ApiClose
    \/ MgrClose
    \/ RepoClose
    \/ CloseClosed

SpecApp == InitApp /\ [][NextApp]_vars

ShutdownOrder == <<"Shutdown", "ApiClose", "MgrClose", "RepoClose", "Closed">>

\* C16: the shutdown steps are taken only after a signal, each once and in the
\* order Shutdown, resolver Close, manager Close, repository Close, close of
\* app.closed; run, unless only the version was asked for, has returned only
\* when app.closed is closed and terminate has finished, also after
\* ListenAndServe returned early.
C16_ShutdownOrder ==
    /\ Len(events) <= Len(ShutdownOrder)
    /\ events = SubSeq(ShutdownOrder, 1, Len(events))
    /\ events # <<>> => nsig >= 1
    /\ closed <=> events = ShutdownOrder
    /\ isVersionReq => events = <<>>
    /\ (mainPc = "returned" /\ ~isVersionReq) => (closed /\ events = ShutdownOrder)

C16_Witness ==
    /\ mainPc = "returned"
    /\ ~isVersionReq
    /\ srv = "failed"
    /\ nsig = 2
    /\ events = ShutdownOrder

=============================================================================
